---- MODULE Spec2Model ----
(***************************************************************************)
(* Model of crazycubes.py: the rotation engine get_valid_rotation (a       *)
(* breadth-first search over the orientations of one cube) and the solver  *)
(* solve_specific_format (opposing pairs, direction sets, compatible pair, *)
(* chirality resolution, report table).                                    *)
(*                                                                         *)
(* Python lists and tuples are sequences indexed from 1, so slot k of the  *)
(* source is slot k+1 here: 1=Top 2=Bottom 3=Front 4=Back 5=Left 6=Right.  *)
(* Pair-slot choices (the 'axes' of a direction set) keep their source     *)
(* values 0, 1, 2.                                                         *)
(*                                                                         *)
(* The 'attempts' list get_valid_rotation builds before its search (lines  *)
(* 44-64) is never read and is left out.  print calls are modelled by the  *)
(* variables outcome and table.                                            *)
(***************************************************************************)
EXTENDS Integers, Sequences, FiniteSets, TLC

VARIABLES
    \* ---- get_valid_rotation ----
    cube_data,      \* the cube passed in
    target_front,   \* requested Front value
    target_left,    \* requested Left value
    queue,          \* the BFS list the for loop walks while it grows
    pos,            \* position of the for loop in queue (1-based)
    seen,           \* set of visited 6-tuples
    result,         \* value returned: a 6-tuple, or None
    rpc,            \* "idle" | "bfs" | "done"
    \* ---- solve_specific_format ----
    cubes,          \* the six input cubes
    cube_pairs,     \* per cube, its three sorted opposing pairs
    valid_configs,  \* list of direction sets [axes, pairs]
    solutions,      \* list of compatible pairs <<c1, c2>>
    final_fronts,   \* resolve_orientation(sol_fb.pairs)
    final_lefts,    \* resolve_orientation(sol_lr.pairs)
    table,          \* rows printed so far: a rotated cube or None (error row)
    outcome,        \* "running" | "no_solution" | "table" | "IndexError"
    pc              \* position in solve_specific_format

rotVars == <<cube_data, target_front, target_left, queue, pos, seen, result, rpc>>
solveVars == <<cubes, cube_pairs, valid_configs, solutions, final_fronts,
               final_lefts, table, outcome, pc>>
vars == <<rotVars, solveVars>>

\* ------------------------------------------------------------------------
\* Bounds of the model
\* ------------------------------------------------------------------------
\* Cubes with repeated face values given to the rotation engine take their
\* labels from 1..DupLabels.
DupLabels == 2
\* Number of leading cubes of a pool stack that vary over CubePool.
PoolVaried == 5
\* Largest value written over a face of my_cubes in the overwritten inputs.
MaxFaceValue == 7

\* ------------------------------------------------------------------------
\* Program constants
\* ------------------------------------------------------------------------
NumCubes == 6          \* repeat=6, range(6)
NumFaces == 6          \* slots of a cube
NumLabels == 6         \* range(1, 7)
OrientationCap == 24   \* len(seen) < 24

Slots == 1..NumFaces
Labels == 1..NumLabels
None == <<>>

my_cubes == << <<4, 1, 2, 5, 6, 3>>,
               <<6, 4, 5, 2, 3, 1>>,
               <<6, 3, 5, 2, 1, 4>>,
               <<5, 3, 4, 6, 2, 1>>,
               <<3, 6, 2, 1, 4, 5>>,
               <<4, 5, 6, 3, 1, 2>> >>

\* ------------------------------------------------------------------------
\* Geometry engine
\* ------------------------------------------------------------------------
pitch(c) == <<c[3], c[4], c[2], c[1], c[5], c[6]>>

yaw(c) == <<c[1], c[2], c[5], c[6], c[4], c[3]>>

\* variant: Top/Bottom exchanged with Left/Right without the quarter turn
rollMirror(c) == <<c[5], c[6], c[3], c[4], c[1], c[2]>>

roll(c) == <<c[5], c[6], c[3], c[4], c[2], c[1]>>

\* variant: the Left target compared with the Back slot
MatchesBack(state, tf, tl) == state[3] = tf /\ state[4] = tl

\* state[2] == target_front and state[4] == target_left
Matches(state, tf, tl) == state[3] = tf /\ state[5] = tl

\* variant: the search stops expanding after 12 orientations
ShouldExpandEarly(s) == Cardinality(s) < 12

\* if len(seen) < 24
ShouldExpand(s) == Cardinality(s) < OrientationCap

\* queue.append(pitch(state)); queue.append(yaw(state)); queue.append(roll(state))
Neighbors(state) == <<pitch(state), yaw(state), roll(state)>>

\* The for loop of get_valid_rotation from position p on, as a function of
\* the loop's state; the value is what the function returns.
RECURSIVE BfsLoop(_, _, _, _, _)
BfsLoop(q, p, s, tf, tl) ==
    IF p > Len(q) THEN None
    ELSE LET state == q[p] IN
         IF state \in s THEN BfsLoop(q, p + 1, s, tf, tl)
         ELSE LET s2 == s \cup {state} IN
              IF Matches(state, tf, tl) THEN state
              ELSE IF ShouldExpand(s2)
                   THEN BfsLoop(q \o Neighbors(state), p + 1, s2, tf, tl)
                   ELSE BfsLoop(q, p + 1, s2, tf, tl)

get_valid_rotation(cd, tf, tl) == BfsLoop(<<cd>>, 1, {}, tf, tl)

\* ------------------------------------------------------------------------
\* get_valid_rotation as a state machine: one action per loop iteration
\* ------------------------------------------------------------------------
IsPermCube(c) == \A v \in Labels : \E k \in Slots : c[k] = v

\* every cube whose faces carry the six values 1..6
PermCubes == {c \in [Slots -> Labels] : IsPermCube(c)}

\* cubes with repeated face values: every face takes a value of 1..DupLabels
DupCubes == [Slots -> 1..DupLabels]

\* inputs of the termination check: the cubes with repeated values, and the
\* permutation cubes with the value 1 on Top (any other permutation cube is
\* one of these with its values renamed)
AnyCubes == DupCubes \cup {c \in PermCubes : c[1] = 1}

\* targets tried on a cube: every value of 1..6 on a permutation cube; on a
\* cube with repeated values, its possible values and one value it lacks
TargetsFor(c) == IF IsPermCube(c) THEN Labels ELSE 1..(DupLabels + 1)

SolveIdle ==
    /\ cubes = <<>>
    /\ cube_pairs = <<>>
    /\ valid_configs = <<>>
    /\ solutions = <<>>
    /\ final_fronts = <<>>
    /\ final_lefts = <<>>
    /\ table = <<>>
    /\ outcome = "idle"
    /\ pc = "idle"

\* queue = [list(cube_data)]; seen = set()
RotStart ==
    /\ queue = <<cube_data>>
    /\ pos = 1
    /\ seen = {}
    /\ result = None
    /\ rpc = "bfs"
    /\ SolveIdle

InitRot ==
    /\ cube_data \in PermCubes
    /\ target_front \in Labels
    /\ target_left \in Labels
    /\ RotStart

InitRotAny ==
    /\ cube_data \in AnyCubes
    /\ target_front \in TargetsFor(cube_data)
    /\ target_left \in TargetsFor(cube_data)
    /\ RotStart

\* if state_tuple in seen: continue
RotSkipSeen ==
    /\ rpc = "bfs"
    /\ pos <= Len(queue)
    /\ queue[pos] \in seen
    /\ pos' = pos + 1
    /\ UNCHANGED <<cube_data, target_front, target_left, queue, seen, result, rpc>>
    /\ UNCHANGED solveVars

\* seen.add(state_tuple); the state matches: return state
RotFound ==
    /\ rpc = "bfs"
    /\ pos <= Len(queue)
    /\ queue[pos] \notin seen
    /\ Matches(queue[pos], target_front, target_left)
    /\ seen' = seen \cup {queue[pos]}
    /\ result' = queue[pos]
    /\ rpc' = "done"
    /\ UNCHANGED <<cube_data, target_front, target_left, queue, pos>>
    /\ UNCHANGED solveVars

\* seen.add(state_tuple); no match; len(seen) < 24: append the neighbours
RotExpand ==
    /\ rpc = "bfs"
    /\ pos <= Len(queue)
    /\ queue[pos] \notin seen
    /\ ~Matches(queue[pos], target_front, target_left)
    /\ seen' = seen \cup {queue[pos]}
    /\ ShouldExpand(seen')
    /\ queue' = queue \o Neighbors(queue[pos])
    /\ pos' = pos + 1
    /\ UNCHANGED <<cube_data, target_front, target_left, result, rpc>>
    /\ UNCHANGED solveVars

\* seen.add(state_tuple); no match; len(seen) = 24: nothing appended
RotVisitOnly ==
    /\ rpc = "bfs"
    /\ pos <= Len(queue)
    /\ queue[pos] \notin seen
    /\ ~Matches(queue[pos], target_front, target_left)
    /\ seen' = seen \cup {queue[pos]}
    /\ ~ShouldExpand(seen')
    /\ pos' = pos + 1
    /\ UNCHANGED <<cube_data, target_front, target_left, queue, result, rpc>>
    /\ UNCHANGED solveVars

\* the for loop runs off the end of queue: return None
RotReturnNone ==
    /\ rpc = "bfs"
    /\ pos > Len(queue)
    /\ result' = None
    /\ rpc' = "done"
    /\ UNCHANGED <<cube_data, target_front, target_left, queue, pos, seen>>
    /\ UNCHANGED solveVars

NextRot ==
    \/ RotSkipSeen
    \/ RotFound
    \/ RotExpand
    \/ RotVisitOnly
    \/ RotReturnNone

SpecRot == InitRot /\ [][NextRot]_vars

\* the loop is sequential code: an iteration that can run does run
FairRot == InitRotAny /\ [][NextRot]_vars /\ WF_vars(NextRot)

\* ------------------------------------------------------------------------
\* Solver logic
\* ------------------------------------------------------------------------
Min(a, b) == IF a <= b THEN a ELSE b
Max(a, b) == IF a <= b THEN b ELSE a

\* tuple(sorted((x, y)))
SortedPair(x, y) == <<Min(x, y), Max(x, y)>>

\* variant: pairs taken from slots (0,2), (1,3), (4,5)
ExtractCubePairsCrossed(c) ==
    <<SortedPair(c[1], c[3]), SortedPair(c[2], c[4]), SortedPair(c[5], c[6])>>

\* pairs = [sorted(c[0],c[1]), sorted(c[2],c[3]), sorted(c[4],c[5])]
ExtractCubePairs(c) ==
    <<SortedPair(c[1], c[2]), SortedPair(c[3], c[4]), SortedPair(c[5], c[6])>>

Pow(b, e) == IF e = 0 THEN 1 ELSE IF e = 1 THEN b ELSE IF e = 2 THEN b * b
             ELSE IF e = 3 THEN b * b * b ELSE IF e = 4 THEN b * b * b * b
             ELSE IF e = 5 THEN b * b * b * b * b ELSE b * b * b * b * b * b

\* variant: the first position varies fastest
ProductReversed(b) ==
    [n \in 1..Pow(b, NumCubes) |->
        [k \in 1..NumCubes |-> ((n - 1) \div Pow(b, k - 1)) % b]]

\* itertools.product(range(b), repeat=6): the b^6 tuples in the order the
\* iterator yields them (last position varies fastest).
Product(b) ==
    [n \in 1..Pow(b, NumCubes) |->
        [k \in 1..NumCubes |-> ((n - 1) \div Pow(b, NumCubes - k)) % b]]

\* selected_pairs of one choice tuple: cube_pairs[i][pair_idx] for each cube
SelectedPairs(cp, indices) == [i \in 1..NumCubes |-> cp[i][indices[i] + 1]]

\* all_numbers: the selected pairs' members, extended pair after pair
AllNumbers(sp) ==
    [n \in 1..(2 * NumCubes) |-> sp[(n + 1) \div 2][2 - (n % 2)]]

\* Counter(all_numbers)[k]
Counter(nums, k) == Cardinality({n \in DOMAIN nums : nums[n] = k})

\* variant: every value required once instead of twice
IsValidConfigOnce(cp, indices) ==
    \A k \in Labels : Counter(AllNumbers(SelectedPairs(cp, indices)), k) = 1

\* all(Counter(all_numbers)[k] == 2 for k in range(1, 7))
IsValidConfig(cp, indices) ==
    \A k \in Labels : Counter(AllNumbers(SelectedPairs(cp, indices)), k) = 2

\* the loop over itertools.product(range(3), repeat=6) that fills valid_configs
SearchValidConfigs(cp) ==
    LET Accept(indices) == IsValidConfig(cp, indices)
        accepted == SelectSeq(Product(3), Accept)
    IN  [n \in 1..Len(accepted) |->
            [axes |-> accepted[n], pairs |-> SelectedPairs(cp, accepted[n])]]

\* variant: the last cube position is not compared
CollisionShort(c1, c2) == \E k \in 1..(NumCubes - 1) : c1.axes[k] = c2.axes[k]

\* collision: c1['axes'][k] == c2['axes'][k] for some k in range(6)
Collision(c1, c2) == \E k \in 1..NumCubes : c1.axes[k] = c2.axes[k]

\* inner loop "for j in range(i + 1, len(valid_configs))" for one i
CompatibleWith(vc, i) ==
    LET NoCollision(j) == j > i /\ ~Collision(vc[i], vc[j])
        js == SelectSeq([j \in 1..Len(vc) |-> j], NoCollision)
    IN  [n \in 1..Len(js) |-> <<vc[i], vc[js[n]]>>]

\* outer loop "for i in range(len(valid_configs))" from i on
RECURSIVE FindCompatibleFrom(_, _)
FindCompatibleFrom(vc, i) ==
    IF i > Len(vc) THEN <<>>
    ELSE CompatibleWith(vc, i) \o FindCompatibleFrom(vc, i + 1)

FindCompatible(vc) == FindCompatibleFrom(vc, 1)

\* primary = [pairs_list[k][flips[k]] for k in range(6)]
Primary(pairs_list, flips) == [k \in 1..NumCubes |-> pairs_list[k][flips[k] + 1]]

\* variant: one repeated value tolerated
AllDistinctButOne(primary) == Cardinality({primary[k] : k \in DOMAIN primary}) >= 5

\* len(set(primary)) == 6
AllDistinct(primary) == Cardinality({primary[k] : k \in DOMAIN primary}) = 6

\* variant: only the unflipped combination is tried
resolve_orientationNoFlip(pairs_list) ==
    LET primary == [k \in 1..NumCubes |-> pairs_list[k][1]]
    IN  IF AllDistinct(primary) THEN primary ELSE <<>>

\* first flips of itertools.product([0, 1], repeat=6) whose primary values
\* are pairwise distinct; [] when there is none
resolve_orientation(pairs_list) ==
    LET flipsSeq == Product(2)
        good == {n \in DOMAIN flipsSeq : AllDistinct(Primary(pairs_list, flipsSeq[n]))}
    IN  IF good = {} THEN <<>>
        ELSE Primary(pairs_list, flipsSeq[CHOOSE n \in good : \A m \in good : n <= m])

\* ------------------------------------------------------------------------
\* Inputs of solve_specific_format
\* ------------------------------------------------------------------------
\* the same permutation of 1..6 six times
IdenticalInputs == {[i \in 1..NumCubes |-> c] : c \in PermCubes}

SwapSlots(c, s, t) ==
    [k \in Slots |-> IF k = s THEN c[t] ELSE IF k = t THEN c[s] ELSE c[k]]

\* my_cubes with two faces of one cube exchanged
SwappedInputs ==
    {[my_cubes EXCEPT ![i] = SwapSlots(my_cubes[i], s, t)] :
        i \in 1..NumCubes, s \in Slots, t \in Slots}

\* my_cubes with one face of one cube overwritten (repeated values, and
\* values outside 1..6)
OverwrittenInputs ==
    {[my_cubes EXCEPT ![i] = [my_cubes[i] EXCEPT ![s] = v]] :
        i \in 1..NumCubes, s \in Slots, v \in 1..MaxFaceValue}

CubePool == << <<1, 2, 3, 4, 5, 6>>,
               <<1, 2, 1, 2, 3, 4>>,
               <<3, 4, 5, 6, 5, 6>> >>

\* stacks whose first PoolVaried cubes are any cubes of CubePool, the rest
\* being copies of the pool's last cube
PoolInputs ==
    {st \in [1..NumCubes -> {CubePool[n] : n \in DOMAIN CubePool}] :
        \A i \in 1..NumCubes : i > PoolVaried => st[i] = CubePool[3]}

SolveInputs ==
    {my_cubes} \cup IdenticalInputs \cup SwappedInputs \cup OverwrittenInputs
        \cup PoolInputs

RotIdle ==
    /\ cube_data = <<>>
    /\ target_front = 0
    /\ target_left = 0
    /\ queue = <<>>
    /\ pos = 0
    /\ seen = {}
    /\ result = None
    /\ rpc = "idle"

Init ==
    /\ cubes \in SolveInputs
    /\ cube_pairs = <<>>
    /\ valid_configs = <<>>
    /\ solutions = <<>>
    /\ final_fronts = <<>>
    /\ final_lefts = <<>>
    /\ table = <<>>
    /\ outcome = "running"
    /\ pc = "extract"
    /\ RotIdle

\* EXTRACT PAIRS
ExtractPairs ==
    /\ pc = "extract"
    /\ cube_pairs' = [i \in 1..NumCubes |-> ExtractCubePairs(cubes[i])]
    /\ pc' = "search"
    /\ UNCHANGED <<cubes, valid_configs, solutions, final_fronts, final_lefts,
                   table, outcome>>
    /\ UNCHANGED rotVars

\* SEARCH FOR VALID CONFIGURATIONS
SearchConfigs ==
    /\ pc = "search"
    /\ valid_configs' = SearchValidConfigs(cube_pairs)
    /\ pc' = "compat"
    /\ UNCHANGED <<cubes, cube_pairs, solutions, final_fronts, final_lefts,
                   table, outcome>>
    /\ UNCHANGED rotVars

\* FIND COMPATIBLE SOLUTIONS
FindSolutions ==
    /\ pc = "compat"
    /\ solutions' = FindCompatible(valid_configs)
    /\ pc' = "check"
    /\ UNCHANGED <<cubes, cube_pairs, valid_configs, final_fronts, final_lefts,
                   table, outcome>>
    /\ UNCHANGED rotVars

\* if not solutions: print("NO SOLUTION FOUND."); return
ReportNoSolution ==
    /\ pc = "check"
    /\ solutions = <<>>
    /\ outcome' = "no_solution"
    /\ pc' = "done"
    /\ UNCHANGED <<cubes, cube_pairs, valid_configs, solutions, final_fronts,
                   final_lefts, table>>
    /\ UNCHANGED rotVars

sol_fb == solutions[1][1]

\* variant: the left/right set read from the same tuple position as sol_fb
sol_lrSame == solutions[1][1]

sol_lr == solutions[1][2]

\* PROCESS THE FIRST SOLUTION: resolve fronts and lefts, print the header
ProcessFirstSolution ==
    /\ pc = "check"
    /\ solutions # <<>>
    /\ final_fronts' = resolve_orientation(sol_fb.pairs)
    /\ final_lefts' = resolve_orientation(sol_lr.pairs)
    /\ pc' = "report"
    /\ UNCHANGED <<cubes, cube_pairs, valid_configs, solutions, table, outcome>>
    /\ UNCHANGED rotVars

\* one iteration of "for i in range(6)": index final_fronts and final_lefts
\* (IndexError on an empty resolution), rotate the original cube, print the
\* row or the Impossible Geometry line
ReportRow ==
    /\ pc = "report"
    /\ Len(table) < NumCubes
    /\ LET i == Len(table) + 1 IN
       IF i \notin DOMAIN final_fronts \/ i \notin DOMAIN final_lefts
       THEN /\ outcome' = "IndexError"
            /\ pc' = "done"
            /\ UNCHANGED table
       ELSE /\ table' = Append(table,
                   get_valid_rotation(cubes[i], final_fronts[i], final_lefts[i]))
            /\ UNCHANGED <<outcome, pc>>
    /\ UNCHANGED <<cubes, cube_pairs, valid_configs, solutions, final_fronts,
                   final_lefts>>
    /\ UNCHANGED rotVars

\* the loop is over: print the closing rule and return
FinishTable ==
    /\ pc = "report"
    /\ Len(table) = NumCubes
    /\ outcome' = "table"
    /\ pc' = "done"
    /\ UNCHANGED <<cubes, cube_pairs, valid_configs, solutions, final_fronts,
                   final_lefts, table>>
    /\ UNCHANGED rotVars

Next ==
    \/ ExtractPairs
    \/ SearchConfigs
    \/ FindSolutions
    \/ ReportNoSolution
    \/ ProcessFirstSolution
    \/ ReportRow
    \/ FinishTable

Spec == Init /\ [][Next]_vars

\* ========================================================================
\* Properties of get_valid_rotation (SpecRot, FairRot)
\* ========================================================================
RECURSIVE Closure(_)
Closure(S) ==
    LET T == S \cup {pitch(c) : c \in S} \cup {yaw(c) : c \in S}
               \cup {roll(c) : c \in S}
    IN  IF T = S THEN S ELSE Closure(T)

\* every orientation reachable from c by pitch, yaw and roll
Orbit(c) == Closure({c})

\* slots 1,2 are one axis, 3,4 the next, 5,6 the last
AxisOf(k) == (k + 1) \div 2

Distinct(c) == \A j, k \in Slots : j # k => c[j] # c[k]

\* a and b lie on two different opposing pairs of c
AdjacentOn(c, a, b) ==
    \E j, k \in Slots : c[j] = a /\ c[k] = b /\ AxisOf(j) # AxisOf(k)

\* a and b are the two members of one opposing pair of c
OppositeOn(c, a, b) ==
    \E j, k \in Slots : j # k /\ c[j] = a /\ c[k] = b /\ AxisOf(j) = AxisOf(k)

SameValues(c, d) ==
    /\ DOMAIN d = Slots
    /\ \A v \in {c[k] : k \in Slots} \cup {d[k] : k \in Slots} :
          Cardinality({k \in Slots : c[k] = v}) = Cardinality({k \in Slots : d[k] = v})

\* C1: for a cube with six distinct values and targets (a, b) on adjacent
\* faces, get_valid_rotation returns a permutation of the cube's values with
\* Front = a and Left = b that is one of the 24 orientations generated by
\* pitch, yaw and roll.
C1_AdjacentTargetsFound ==
    (rpc = "done" /\ Distinct(cube_data)
        /\ AdjacentOn(cube_data, target_front, target_left))
    => /\ result # None
       /\ SameValues(cube_data, result)
       /\ result[3] = target_front
       /\ result[5] = target_left
       /\ result \in Orbit(cube_data)
       /\ Cardinality(Orbit(cube_data)) = 24

C1_Witness ==
    /\ rpc = "done"
    /\ Distinct(cube_data)
    /\ AdjacentOn(cube_data, target_front, target_left)
    /\ result # None
    /\ result # cube_data
    /\ Cardinality(seen) = 24

C9_Safety ==
    /\ Cardinality(seen) <= 24
    /\ rpc = "done" => seen \subseteq Orbit(cube_data)
    \* every queue entry is the input or a neighbour of a visited state
    /\ Len(queue) <= 1 + 3 * Cardinality(seen)
    /\ pos <= Len(queue) + 1
    /\ (rpc = "done" /\ result = None)
          => /\ seen = Orbit(cube_data)
             /\ \A st \in Orbit(cube_data) : ~Matches(st, target_front, target_left)

\* C9: for every cube, repeated values included, and every pair of targets
\* the search terminates, never holds more than 24 states in seen, and
\* returns None only after every reachable orientation has been tested.
C9_SearchTerminates == []C9_Safety /\ <>(rpc = "done")

C9_Witness ==
    /\ rpc = "done"
    /\ ~Distinct(cube_data)
    /\ result = None
    /\ Cardinality(seen) > 1
    /\ pos > Len(queue)

\* ========================================================================
\* Properties of solve_specific_format (Spec)
\* ========================================================================
\* the three opposing pairs of the original cube, as unordered sets
OpposingSets(c) == {{c[1], c[2]}, {c[3], c[4]}, {c[5], c[6]}}

\* the opposing pair of cube c at pair slot a (0, 1 or 2)
OpposingAt(c, a) == {c[2 * a + 1], c[2 * a + 2]}

IsPermutationOfLabels(seq) ==
    /\ DOMAIN seq = 1..NumCubes
    /\ {seq[i] : i \in 1..NumCubes} = Labels

Column(s) == [i \in 1..NumCubes |-> table[i][s]]

AllRowsRotated == Len(table) = NumCubes /\ \A i \in 1..NumCubes : table[i] # None

PermInput == \A i \in 1..NumCubes : IsPermCube(cubes[i])

IdenticalPermInput == PermInput /\ \A i \in 1..NumCubes : cubes[i] = cubes[1]

\* C3: on my_cubes the solver prints one table of six rotated cubes; each
\* row's {Front, Back} and {Left, Right} are opposing pairs of the original
\* cube; the Front column and the Left column are permutations of 1..6.
C3_MyCubesTable ==
    (cubes = my_cubes /\ pc = "done")
    => /\ outcome = "table"
       /\ AllRowsRotated
       /\ \A i \in 1..NumCubes :
             /\ {table[i][3], table[i][4]} \in OpposingSets(my_cubes[i])
             /\ {table[i][5], table[i][6]} \in OpposingSets(my_cubes[i])
       /\ IsPermutationOfLabels(Column(3))
       /\ IsPermutationOfLabels(Column(5))

C3_Witness == cubes = my_cubes /\ pc = "done" /\ Len(table) = NumCubes

\* C4 as stated: in the table reported for six permutation cubes every one of
\* the six columns (Top, Bottom, Front, Back, Left, Right) shows each value
\* 1..6 exactly once.
C4_AllColumnsDistinct ==
    (PermInput /\ pc = "done" /\ outcome = "table" /\ AllRowsRotated)
    => \A s \in Slots : IsPermutationOfLabels(Column(s))

\* C4 amended: in the table reported for six permutation cubes each of the
\* four side columns (Front, Back, Left, Right) shows each value 1..6 exactly
\* once; nothing is promised of the Top and Bottom columns.
C4_SideColumnsDistinct ==
    (PermInput /\ pc = "done" /\ outcome = "table")
    => /\ AllRowsRotated
       /\ \A s \in 3..6 : IsPermutationOfLabels(Column(s))

C4_Witness ==
    /\ PermInput
    /\ pc = "done"
    /\ outcome = "table"
    /\ AllRowsRotated
    /\ ~IsPermutationOfLabels(Column(1))
    /\ ~IsPermutationOfLabels(Column(2))

\* C5 as stated: six identical permutation cubes end in NO SOLUTION FOUND with
\* no table.
C5_IdenticalNoSolution ==
    (IdenticalPermInput /\ pc = "done")
    => (outcome = "no_solution" /\ table = <<>>)

\* C5 amended: six identical permutation cubes end, without an exception, in
\* a table of six rotated cubes.
C5_IdenticalTable ==
    (IdenticalPermInput /\ pc = "done")
    => (outcome = "table" /\ AllRowsRotated /\ solutions # <<>>)

C5_Witness == IdenticalPermInput /\ pc = "done" /\ outcome = "table"

\* C6: every run ends in a no-solution report or in a six-row table whose
\* rows are rotated cubes or impossibility markers; final_fronts and
\* final_lefts are never indexed while empty.
C6_NoAbnormalEnd ==
    /\ outcome # "IndexError"
    /\ pc = "report" => (Len(final_fronts) = NumCubes /\ Len(final_lefts) = NumCubes)
    /\ pc = "done" =>
          \/ outcome = "no_solution" /\ table = <<>>
          \/ /\ outcome = "table"
             /\ Len(table) = NumCubes
             /\ \A i \in 1..NumCubes :
                   table[i] = None \/ SameValues(cubes[i], table[i])

C6_Witness ==
    /\ pc = "done"
    /\ outcome = "table"
    /\ ~PermInput
    /\ \E i \in 1..NumCubes : final_fronts[i] # sol_fb.pairs[i][1]

ChoiceTuples == [1..NumCubes -> 0..2]

\* among the 12 faces the choice tuple t selects, every value occurs twice
TwiceEach(t) ==
    \A v \in Labels :
        Cardinality({f \in (1..NumCubes) \X (1..2) :
                        cubes[f[1]][2 * t[f[1]] + f[2]] = v}) = 2

LexLess(a, b) ==
    \E k \in 1..NumCubes : a[k] < b[k] /\ \A j \in 1..(k - 1) : a[j] = b[j]

\* C7: valid_configs holds exactly the choice tuples, out of all 3^6, whose
\* 12 selected face values show each of 1..6 twice, in ascending
\* lexicographic order without repetition.
C7_ValidConfigsExact ==
    pc = "compat"
    => /\ {valid_configs[n].axes : n \in DOMAIN valid_configs}
             = {t \in ChoiceTuples : TwiceEach(t)}
       /\ \A m, n \in DOMAIN valid_configs :
             m < n => LexLess(valid_configs[m].axes, valid_configs[n].axes)
       /\ \A n \in DOMAIN valid_configs : \A i \in 1..NumCubes :
             {valid_configs[n].pairs[i][1], valid_configs[n].pairs[i][2]}
                = OpposingAt(cubes[i], valid_configs[n].axes[i])

C7_Witness ==
    /\ pc = "compat"
    /\ Len(valid_configs) > 1
    /\ Len(valid_configs) < 729
    /\ \E i \in 1..NumCubes : cubes[i] # cubes[1]

\* the axes of direction sets m and n differ at every cube position
DisjointAxes(m, n) ==
    \A k \in 1..NumCubes : valid_configs[m].axes[k] # valid_configs[n].axes[k]

HasCompatiblePair ==
    \E m \in DOMAIN valid_configs : \E n \in DOMAIN valid_configs :
        m < n /\ DisjointAxes(m, n)

\* (m, n) comes before (i, j) in the order of the two nested loops
ScannedBefore(m, n, i, j) == m < i \/ (m = i /\ n < j)

\* C8: the pair used for the report is the first compatible pair (i, j), i < j,
\* in ascending order of i then j; its two sets share no axis choice at any
\* cube; NO SOLUTION is reported exactly when there is no compatible pair.
C8_FirstCompatiblePair ==
    /\ pc \in {"check", "report"} =>
          IF solutions = <<>> THEN ~HasCompatiblePair
          ELSE /\ \A k \in 1..NumCubes : sol_fb.axes[k] # sol_lr.axes[k]
               /\ \E i \in DOMAIN valid_configs :
                     /\ sol_fb = valid_configs[i]
                     /\ \E j \in DOMAIN valid_configs :
                           /\ sol_lr = valid_configs[j]
                           /\ i < j
                           /\ \A m \in 1..i : \A n \in (m + 1)..Len(valid_configs) :
                                 ScannedBefore(m, n, i, j) => ~DisjointAxes(m, n)
    /\ pc = "done" => (outcome = "no_solution" <=> ~HasCompatiblePair)

C8_Witness ==
    /\ pc = "report"
    /\ Len(solutions) > 1
    /\ sol_fb # valid_configs[1]
    /\ sol_lr # valid_configs[Len(valid_configs)]

ReachedTable == pc = "report" \/ (pc = "done" /\ outcome = "table")

\* C10: when the table is reached for six permutation cubes, each target
\* front is a member of the cube's opposing pair at sol_fb.axes[i], each target
\* left a member of the pair at sol_lr.axes[i], the two pair slots differ, and
\* no row is an Impossible Geometry row.
C10_TargetsAdjacent ==
    (ReachedTable /\ PermInput)
    => /\ \A i \in 1..NumCubes :
             /\ final_fronts[i] \in OpposingAt(cubes[i], sol_fb.axes[i])
             /\ final_lefts[i] \in OpposingAt(cubes[i], sol_lr.axes[i])
             /\ sol_fb.axes[i] # sol_lr.axes[i]
       /\ \A i \in DOMAIN table :
             /\ table[i] # None
             /\ table[i][3] = final_fronts[i]
             /\ table[i][5] = final_lefts[i]

C10_Witness ==
    /\ pc = "done"
    /\ outcome = "table"
    /\ PermInput
    /\ ~IdenticalPermInput
    /\ AllRowsRotated

====
